---- MODULE Spec2Model ----
(***************************************************************************)
(* Face attendance system: the blink-triggered attendance pipeline         *)
(* (pages/attendance.py), the student wrapper with the once-per-day        *)
(* pre-check (pages/student/mark_attendance.py), the attendance log and    *)
(* the enrolled-signature store (db/database.py, db/database_extensions.py)*)
(* and the components FaceDetector, FaceEmbedder and FaceMatcher.          *)
(*                                                                         *)
(* Specifications.  Spec: one student session, the admin's registrations   *)
(* and the clock.  SpecFaults: one session on a populated store, with the *)
(* script runs that end in an exception.  SpecLive: Spec on a UTC host     *)
(* with the script and the clock running on.  SpecConcurrent: two sessions *)
(* of one student on a populated store.                                    *)
(* SpecFaultsLive: SpecFaults with the clock running on and a user who    *)
(* keeps reloading the page.  SpecRows: SpecFaults on stores with a near   *)
(* miss.  SpecTwoUsers: the sessions of two students.  SpecAuth: one       *)
(* session with login, logout and an account being disabled.               *)
(* SpecMatcher, SpecEmbedder, SpecDetector, SpecStore, SpecLiveness: one   *)
(* component on its own inputs.                                            *)
(*                                                                         *)
(* Representation.  A vector is a tuple of integers; the real vector is    *)
(* the tuple divided by Scale, so a unit vector has squared norm Scale^2.  *)
(* A similarity score is an integer in units of 1/Scale^2 (Scale^2 = 1.0). *)
(* A threshold is an integer in hundredths (80 = 0.80).  Time is counted   *)
(* in ticks of one second; a calendar day is DayLen ticks long.  In the    *)
(* attendance specifications SQLite statements are taken to succeed; the   *)
(* store specification lets insert_student fail and return False.          *)
(***************************************************************************)
EXTENDS Integers, Sequences, FiniteSets, TLC

\* ------------------------------------------------------------------ bounds
Scale == 5              \* resolution of the vector representation
MaxTime == 7            \* the clock stops here
DayLen == 4             \* ticks per calendar day
MaxLog == 2             \* rows the attendance log may hold
MaxRawLen == 3          \* longest raw model output
MaxCand == 2            \* longest candidate list of the matcher specification
MaxFaces == 3           \* most faces FaceDetection reports in a frame
MaxWidth == 7           \* widest frame, in pixels
MaxHeight == 6          \* height of a frame, in pixels
MaxBox == 2             \* longest side of a detected bounding box
MaxFrames == 4          \* longest window of frames given to check_liveness

\* --------------------------------------------------------- program constants
\* EMBEDDING_DIM is 512 in utils/config.py; the model keeps two components.
\* The thresholds 0.80 and 0.20 are written in hundredths, the cooldown and
\* the dwell in seconds.  FACE_CROP_PADDING is 20 pixels in utils/config.py;
\* the model's frames are a few pixels wide and the padding is 2.
EMBEDDING_DIM == 2
FACE_CROP_PADDING == 2

\* The liveness thresholds are variances: 0.0005 of landmark coordinates
\* written in hundredths of the frame and 0.001 of the EAR written in
\* hundredths, so both in units of 1/10000.  FaceMesh gives 468 landmarks of
\* three coordinates; the model keeps two coordinates.
LIVENESS_FRAMES_COUNT == 3
LIVENESS_MOVEMENT_THRESHOLD == 5
EYE_ASPECT_RATIO_THRESHOLD == 10
LANDMARK_COORDS == 2
COSINE_SIMILARITY_THRESHOLD == 80
BLINK_THRESHOLD == 20
BLINK_COOLDOWN == 2
RESULT_DWELL == 2

\* Python's None: for an id or a name, for a vector, for any other object
None == "None"
NoEmbedding == <<>>
NoObject == [none |-> TRUE]

\* the UTC offsets of the host: west of, on and east of Greenwich
HostOffsets == {0 - 1, 0, 1}

Sessions == {"s1", "s2"}
StudentIds == {"STU1", "STU2"}
StudentNames == {"Ann", "Bob"}

\* the ids of the store specification
StoreIds == StudentIds \cup {"STU3"}

ScoreUnit == Scale * Scale

\* ------------------------------------------------------------ vector algebra
RECURSIVE SumTo(_, _)
SumTo(f, n) == IF n = 0 THEN 0 ELSE f[n] + SumTo(f, n - 1)

Dot(a, b) == SumTo([i \in 1..Len(a) |-> a[i] * b[i]], Len(a))

SqNorm(a) == Dot(a, a)

RECURSIVE IsqrtFrom(_, _)
IsqrtFrom(n, r) == IF (r + 1) * (r + 1) > n THEN r ELSE IsqrtFrom(n, r + 1)

\* floor of the square root
Isqrt(n) == IsqrtFrom(n, 0)

\* np.linalg.norm, exact on the vectors of the model (their norms are integers)
Norm(a) == Isqrt(SqNorm(a))

HasIntegerNorm(a) == Norm(a) * Norm(a) = SqNorm(a)

ZeroVector == [i \in 1..EMBEDDING_DIM |-> 0]

UnitAxis(k) == [i \in 1..EMBEDDING_DIM |-> IF i = k THEN Scale ELSE 0]

Components == {0 - Scale, 0 - 3, 0, 3, 4, Scale}

\* the unit vectors the representation can express
UnitVectors ==
    {v \in [1..EMBEDDING_DIM -> Components] : SqNorm(v) = ScoreUnit}

\* every signature generate_embedding can hand to the store or to the matcher
Signatures == UnitVectors \cup {ZeroVector}

\* ------------------------------------------------------------- FaceEmbedder
RawValues == {0 - 4, 0, 3, 4, 6, 8}

\* lines 99-107: pad with zeros or truncate to EMBEDDING_DIM components
FitToDim(raw) ==
    IF Len(raw) < EMBEDDING_DIM
    THEN [i \in 1..EMBEDDING_DIM |-> IF i <= Len(raw) THEN raw[i] ELSE 0]
    ELSE [i \in 1..EMBEDDING_DIM |-> raw[i]]

\* raw outputs whose normalisation is exact in the integer representation
RawOutputs ==
    {r \in UNION {[1..n -> RawValues] : n \in 1..MaxRawLen} :
        /\ HasIntegerNorm(FitToDim(r))
        /\ \/ Norm(FitToDim(r)) = 0
           \/ \A i \in 1..EMBEDDING_DIM :
                 (FitToDim(r)[i] * Scale) % Norm(FitToDim(r)) = 0}

\* an exception raised inside the try block: by _preprocess_face (cv2.resize,
\* cv2.cvtColor) or by session.run
StageFaults == {"none", "preprocess", "inference"}

\* a face crop: its pixel count, what the ONNX model outputs for it, and the
\* exception its processing raises
Crops == [size : {0, 1}, raw : RawOutputs, fault : StageFaults]

_normalize_embedding(embedding) ==
    IF Norm(embedding) = 0
    THEN embedding
    ELSE [i \in 1..Len(embedding) |-> (embedding[i] * Scale) \div Norm(embedding)]

\* lines 85-112: the body of the try block; raised tells that an exception
\* left it
generate_embedding_try(face_image) ==
    IF face_image = NoObject THEN [raised |-> FALSE, value |-> NoEmbedding]
    ELSE IF face_image.size = 0 THEN [raised |-> FALSE, value |-> NoEmbedding]
    ELSE IF face_image.fault # "none" THEN [raised |-> TRUE, value |-> NoEmbedding]
    ELSE [raised |-> FALSE,
          value |-> _normalize_embedding(FitToDim(face_image.raw))]

generate_embedding_call_no_except(session_loaded, face_image) ==
    IF ~session_loaded THEN [raised |-> FALSE, value |-> NoEmbedding]
    ELSE generate_embedding_try(face_image)

\* lines 80-116: the session test, the try block and its except clause; the
\* result tells whether an exception reaches the caller and what is returned
generate_embedding_call(session_loaded, face_image) ==
    IF ~session_loaded THEN [raised |-> FALSE, value |-> NoEmbedding]
    ELSE LET r == generate_embedding_try(face_image) IN
         IF r.raised THEN [raised |-> FALSE, value |-> NoEmbedding] ELSE r

\* the value generate_embedding returns to its caller
generate_embedding(session_loaded, face_image) ==
    generate_embedding_call(session_loaded, face_image).value

\* --------------------------------------------------------------- FaceMatcher
\* sklearn's normalize() divides a zero row by 1 instead of by its norm
SafeNorm(a) == IF Norm(a) = 0 THEN Scale ELSE Norm(a)

cosine_similarity(a, b) ==
    (Dot(a, b) * ScoreUnit) \div (SafeNorm(a) * SafeNorm(b))

MaxOf(S) == CHOOSE x \in S : \A y \in S : y <= x

np_argmax_last(similarities) ==
    MaxOf({i \in 1..Len(similarities) :
              \A j \in 1..Len(similarities) : similarities[j] <= similarities[i]})

\* np.argmax: the first index that holds the maximum
np_argmax(similarities) ==
    CHOOSE i \in 1..Len(similarities) :
        /\ \A j \in 1..Len(similarities) : similarities[j] <= similarities[i]
        /\ \A j \in 1..(i - 1) : similarities[j] < similarities[i]

AtLeast_strict(score, threshold) == score * 100 > threshold * ScoreUnit

\* best_score >= self.threshold, score in 1/ScoreUnit, threshold in hundredths
AtLeast(score, threshold) == score * 100 >= threshold * ScoreUnit

match_1_to_n_default_score(query_embedding, database_embeddings, threshold) ==
    IF Len(database_embeddings) = 0
    THEN [student_id |-> None, student_name |-> None, similarity_score |-> 0]
    ELSE LET similarities == [i \in 1..Len(database_embeddings) |->
                 cosine_similarity(query_embedding, database_embeddings[i].embedding)]
             best_idx == np_argmax(similarities)
             best_score == similarities[best_idx]
         IN  IF AtLeast(best_score, threshold)
             THEN [student_id |-> database_embeddings[best_idx].student_id,
                   student_name |-> database_embeddings[best_idx].student_name,
                   similarity_score |-> best_score]
             ELSE [student_id |-> None, student_name |-> None,
                   similarity_score |-> 0]

match_1_to_n(query_embedding, database_embeddings, threshold) ==
    IF Len(database_embeddings) = 0
    THEN [student_id |-> None, student_name |-> None, similarity_score |-> 0]
    ELSE LET similarities == [i \in 1..Len(database_embeddings) |->
                 cosine_similarity(query_embedding, database_embeddings[i].embedding)]
             best_idx == np_argmax(similarities)
             best_score == similarities[best_idx]
         IN  IF AtLeast(best_score, threshold)
             THEN [student_id |-> database_embeddings[best_idx].student_id,
                   student_name |-> database_embeddings[best_idx].student_name,
                   similarity_score |-> best_score]
             ELSE [student_id |-> None, student_name |-> None,
                   similarity_score |-> best_score]

\* -------------------------------------------------------------- FaceDetector
\* a frame: the number of faces FaceDetection reports, whether FaceMesh finds
\* landmarks, the two-eye average EAR in hundredths, the pixels of the face,
\* the shape of the frame and the bounding box of the first detection in
\* pixels (lines 55-58: the relative box times the frame size, through int())
detect_faces_count(image) == image.faces

Max2(a, b) == IF a >= b THEN a ELSE b

Min2(a, b) == IF a <= b THEN a ELSE b

\* lines 51-64: the bounding box with the padding added
padded_bbox(image) ==
    LET h == image.shape.h
        w == image.shape.w
        x == Max2(0, image.box.x - FACE_CROP_PADDING)
        y == Max2(0, image.box.y - FACE_CROP_PADDING)
        box_w == Min2(w - x, image.box.w + 2 * FACE_CROP_PADDING)
        box_h == Min2(h - y, image.box.h + 2 * FACE_CROP_PADDING)
    IN  [x |-> x, y |-> y, w |-> box_w, h |-> box_h]

detect_single_face_at_least_one(image) ==
    IF image.faces < 1 THEN NoObject
    ELSE [face_crop |-> image.crop, bbox |-> padded_bbox(image)]

\* lines 45-46: None unless exactly one detection; lines 67-75: the crop
\* image[y:y+box_h, x:x+box_w] and the box it was cut from
detect_single_face(image) ==
    IF image.faces # 1 THEN NoObject
    ELSE [face_crop |-> image.crop, bbox |-> padded_bbox(image)]

\* lines 60-80 of pages/attendance.py
detect_blink(image) ==
    IF ~image.landmarks
    THEN [is_closed |-> FALSE, ear |-> 0]
    ELSE [is_closed |-> image.ear < BLINK_THRESHOLD, ear |-> image.ear]

\* ---------------------------------------------------------- LivenessDetector
\* np.var: the mean of the squared deviations from the mean, as the fraction
\* num/den; n * x - total is n times the deviation of x
np_var(xs) ==
    LET n == Len(xs)
        total == SumTo(xs, n)
        dev2 == [i \in 1..n |-> (n * xs[i] - total) * (n * xs[i] - total)]
    IN  [num |-> SumTo(dev2, n), den |-> n * n * n]

\* a fraction against a threshold
Exceeds(v, limit) == v.num > limit * v.den

\* lines 110-129: the variance of every landmark coordinate across the
\* frames, averaged over the coordinates
_calculate_movement_variance(landmarks_sequence) ==
    LET n == Len(landmarks_sequence)
        variance == [k \in 1..LANDMARK_COORDS |->
                        np_var([i \in 1..n |-> landmarks_sequence[i].points[k]])]
        nums == [k \in 1..LANDMARK_COORDS |-> variance[k].num]
    IN  [num |-> SumTo(nums, LANDMARK_COORDS), den |-> n * n * n * LANDMARK_COORDS]

\* lines 131-157: the variance of the two-eye average EAR across the frames
\* against EYE_ASPECT_RATIO_THRESHOLD
_detect_blink(landmarks_sequence) ==
    LET n == Len(landmarks_sequence)
        ear_values == [i \in 1..n |-> landmarks_sequence[i].ear]
    IN  Exceeds(np_var(ear_values), EYE_ASPECT_RATIO_THRESHOLD)

check_liveness_needs_both(frames) ==
    IF Len(frames) < LIVENESS_FRAMES_COUNT
    THEN [is_live |-> FALSE, reason |-> "Insufficient frames"]
    ELSE IF \E i \in 1..Len(frames) : ~frames[i].landmarks
    THEN [is_live |-> FALSE, reason |-> "Face landmarks not detected"]
    ELSE IF /\ Exceeds(_calculate_movement_variance(frames), LIVENESS_MOVEMENT_THRESHOLD)
            /\ _detect_blink(frames)
    THEN [is_live |-> TRUE, reason |-> "Natural movement detected"]
    ELSE [is_live |-> FALSE, reason |-> "Static image detected (no movement)"]

\* lines 35-80: (is_live, reason) for a window of frames; a frame carries
\* whether FaceMesh found landmarks, their coordinates and the EAR
check_liveness(frames) ==
    IF Len(frames) < LIVENESS_FRAMES_COUNT
    THEN [is_live |-> FALSE, reason |-> "Insufficient frames"]
    ELSE IF \E i \in 1..Len(frames) : ~frames[i].landmarks
    THEN [is_live |-> FALSE, reason |-> "Face landmarks not detected"]
    ELSE IF Exceeds(_calculate_movement_variance(frames), LIVENESS_MOVEMENT_THRESHOLD)
    THEN [is_live |-> TRUE, reason |-> "Natural movement detected"]
    ELSE IF _detect_blink(frames)
    THEN [is_live |-> TRUE, reason |-> "Eye blink detected"]
    ELSE [is_live |-> FALSE, reason |-> "Static image detected (no movement)"]

\* ------------------------------------------------------------------ Database
\* datetime.now(): the host's local wall clock
LocalNow(utc_now, offset) == utc_now + offset

\* SQLite DATE(): the calendar day of a time value
Date(t) == t \div DayLen

\* INSERT OR REPLACE: the row of the same student_id is deleted, the new row
\* is added at the end of the table
RECURSIVE SelectSeq2(_, _)
SelectSeq2(s, id) ==
    IF s = <<>> THEN <<>>
    ELSE IF Head(s).student_id = id THEN SelectSeq2(Tail(s), id)
         ELSE <<Head(s)>> \o SelectSeq2(Tail(s), id)

\* pickle.dumps and pickle.loads: a lossless encoding of the array
pickle_dumps(obj) == [pickled |-> obj]

pickle_loads(blob) == blob.pickled

insert_student_no_replace(table, student_id, student_name, embedding) ==
    Append(table,
           [student_id |-> student_id, student_name |-> student_name,
            embedding |-> pickle_dumps(embedding)])

\* the table after a successful insert_student
insert_student(table, student_id, student_name, embedding) ==
    Append(SelectSeq2(table, student_id),
           [student_id |-> student_id, student_name |-> student_name,
            embedding |-> pickle_dumps(embedding)])

\* SELECT student_id, student_name, embedding FROM students, unpickled
get_all_embeddings(table) ==
    [i \in 1..Len(table) |->
        [student_id |-> table[i].student_id,
         student_name |-> table[i].student_name,
         embedding |-> pickle_loads(table[i].embedding)]]

get_student_count(table) == Len(table)

log_attendance_or_replace(logs, student_id, status, similarity_score, local_now) ==
    Append(SelectSeq2(logs, student_id),
           [student_id |-> student_id, timestamp |-> local_now,
            status |-> status, similarity_score |-> similarity_score])

\* INSERT INTO attendance_logs: one new row at the end, log_id ascending
log_attendance(logs, student_id, status, similarity_score, local_now) ==
    Append(logs, [student_id |-> student_id, timestamp |-> local_now,
                  status |-> status, similarity_score |-> similarity_score])

\* DATE(timestamp) = DATE('now'): the stored local time against the UTC day
check_attendance_today(logs, student_id, utc_now) ==
    \E i \in 1..Len(logs) :
        /\ logs[i].student_id = student_id
        /\ Date(logs[i].timestamp) = Date(utc_now)
        /\ logs[i].status = "SUCCESS"

get_today_attendance_count_rows(logs, utc_now) ==
    Cardinality({j \in 1..Len(logs) : /\ logs[j].student_id # None
                                      /\ Date(logs[j].timestamp) = Date(utc_now)
                                      /\ logs[j].status = "SUCCESS"})

\* COUNT(DISTINCT student_id) of today's SUCCESS rows; NULL is not counted
get_today_attendance_count(logs, utc_now) ==
    Cardinality({logs[i].student_id : i \in
        {j \in 1..Len(logs) : /\ logs[j].student_id # None
                              /\ Date(logs[j].timestamp) = Date(utc_now)
                              /\ logs[j].status = "SUCCESS"}})

\* ------------------------------------------------- pages/attendance.py
\* lines 98-100, commented out in the source: the window the liveness check
\* would be given is the captured frame three times, so the landmark
\* coordinates and the EAR are the same in all three
LivenessWindow(frame) ==
    LET still == [landmarks |-> frame.landmarks, points |-> <<0, 0>>,
                  ear |-> frame.ear]
    IN  <<still, still, still>>

process_attendance_strict_liveness(frame, session_loaded, table, logs, threshold, local_now) ==
    LET result == detect_single_face(frame) IN
    IF result = NoObject
    THEN [logs |-> log_attendance(logs, None, "FAILURE", 0, local_now),
          result_data |-> NoObject, error |-> "No face detected",
          trace |-> <<"detect", "log">>]
    ELSE
    LET liveness == check_liveness(LivenessWindow(frame)) IN
    IF ~liveness.is_live
    THEN [logs |-> log_attendance(logs, None, "FAILURE", 0, local_now),
          result_data |-> NoObject, error |-> liveness.reason,
          trace |-> <<"detect", "liveness", "log">>]
    ELSE
    LET embedding == generate_embedding(session_loaded, result.face_crop) IN
    IF embedding = NoEmbedding
    THEN [logs |-> log_attendance(logs, None, "FAILURE", 0, local_now),
          result_data |-> NoObject, error |-> "Embedding generation failed",
          trace |-> <<"detect", "liveness", "embed", "log">>]
    ELSE
    LET m == match_1_to_n(embedding, get_all_embeddings(table), threshold) IN
    [logs |-> IF m.student_id # None
              THEN log_attendance(logs, m.student_id, "SUCCESS", m.similarity_score, local_now)
              ELSE log_attendance(logs, None, "FAILURE", m.similarity_score, local_now),
     result_data |-> [student_id |-> m.student_id, student_name |-> m.student_name,
                      similarity_score |-> m.similarity_score,
                      is_live |-> liveness.is_live],
     error |-> None,
     trace |-> <<"detect", "liveness", "embed", "store", "match", "log">>]

process_attendance_no_log_on_no_face(frame, session_loaded, table, logs, threshold, local_now) ==
    LET result == detect_single_face(frame) IN
    IF result = NoObject
    THEN [logs |-> logs, result_data |-> NoObject, error |-> "No face detected",
          trace |-> <<"detect">>]
    ELSE
    LET embedding == generate_embedding(session_loaded, result.face_crop) IN
    IF embedding = NoEmbedding
    THEN [logs |-> log_attendance(logs, None, "FAILURE", 0, local_now),
          result_data |-> NoObject, error |-> "Embedding generation failed",
          trace |-> <<"detect", "embed", "log">>]
    ELSE
    LET m == match_1_to_n(embedding, get_all_embeddings(table), threshold) IN
    [logs |-> IF m.student_id # None
              THEN log_attendance(logs, m.student_id, "SUCCESS", m.similarity_score, local_now)
              ELSE log_attendance(logs, None, "FAILURE", m.similarity_score, local_now),
     result_data |-> [student_id |-> m.student_id, student_name |-> m.student_name,
                      similarity_score |-> m.similarity_score, is_live |-> TRUE],
     error |-> None,
     trace |-> <<"detect", "embed", "store", "match", "log">>]

process_attendance_check_and_insert(frame, session_loaded, table, logs, threshold, local_now) ==
    LET result == detect_single_face(frame) IN
    IF result = NoObject
    THEN [logs |-> log_attendance(logs, None, "FAILURE", 0, local_now),
          result_data |-> NoObject, error |-> "No face detected",
          trace |-> <<"detect", "log">>]
    ELSE
    LET embedding == generate_embedding(session_loaded, result.face_crop) IN
    IF embedding = NoEmbedding
    THEN [logs |-> log_attendance(logs, None, "FAILURE", 0, local_now),
          result_data |-> NoObject, error |-> "Embedding generation failed",
          trace |-> <<"detect", "embed", "log">>]
    ELSE
    LET m == match_1_to_n(embedding, get_all_embeddings(table), threshold) IN
    [logs |-> IF m.student_id # None
                 /\ ~(\E i \in 1..Len(logs) :
                        /\ logs[i].student_id = m.student_id
                        /\ logs[i].status = "SUCCESS"
                        /\ Date(logs[i].timestamp) = Date(local_now))
              THEN log_attendance(logs, m.student_id, "SUCCESS", m.similarity_score, local_now)
              ELSE log_attendance(logs, None, "FAILURE", m.similarity_score, local_now),
     result_data |-> [student_id |-> m.student_id, student_name |-> m.student_name,
                      similarity_score |-> m.similarity_score, is_live |-> TRUE],
     error |-> None,
     trace |-> <<"detect", "embed", "store", "match", "log">>]

process_attendance_match_after_failed_embedding(frame, session_loaded, table, logs, threshold, local_now) ==
    LET result == detect_single_face(frame) IN
    IF result = NoObject
    THEN [logs |-> log_attendance(logs, None, "FAILURE", 0, local_now),
          result_data |-> NoObject, error |-> "No face detected",
          trace |-> <<"detect", "log">>]
    ELSE
    LET embedding == generate_embedding(session_loaded, result.face_crop) IN
    IF embedding = NoEmbedding
    THEN [logs |-> log_attendance(logs, None, "FAILURE", 0, local_now),
          result_data |-> NoObject, error |-> "Embedding generation failed",
          trace |-> <<"detect", "embed", "store", "match", "log">>]
    ELSE
    LET m == match_1_to_n(embedding, get_all_embeddings(table), threshold) IN
    [logs |-> IF m.student_id # None
              THEN log_attendance(logs, m.student_id, "SUCCESS", m.similarity_score, local_now)
              ELSE log_attendance(logs, None, "FAILURE", m.similarity_score, local_now),
     result_data |-> [student_id |-> m.student_id, student_name |-> m.student_name,
                      similarity_score |-> m.similarity_score, is_live |-> TRUE],
     error |-> None,
     trace |-> <<"detect", "embed", "store", "match", "log">>]

process_attendance_no_match_zero_score(frame, session_loaded, table, logs, threshold, local_now) ==
    LET result == detect_single_face(frame) IN
    IF result = NoObject
    THEN [logs |-> log_attendance(logs, None, "FAILURE", 0, local_now),
          result_data |-> NoObject, error |-> "No face detected",
          trace |-> <<"detect", "log">>]
    ELSE
    LET embedding == generate_embedding(session_loaded, result.face_crop) IN
    IF embedding = NoEmbedding
    THEN [logs |-> log_attendance(logs, None, "FAILURE", 0, local_now),
          result_data |-> NoObject, error |-> "Embedding generation failed",
          trace |-> <<"detect", "embed", "log">>]
    ELSE
    LET m == match_1_to_n(embedding, get_all_embeddings(table), threshold) IN
    [logs |-> IF m.student_id # None
              THEN log_attendance(logs, m.student_id, "SUCCESS", m.similarity_score, local_now)
              ELSE log_attendance(logs, None, "FAILURE", 0, local_now),
     result_data |-> [student_id |-> m.student_id, student_name |-> m.student_name,
                      similarity_score |-> m.similarity_score, is_live |-> TRUE],
     error |-> None,
     trace |-> <<"detect", "embed", "store", "match", "log">>]

\* one attendance attempt on a captured frame; the liveness check is commented
\* out in the source (is_live = True); trace lists the stages that ran
process_attendance(frame, session_loaded, table, logs, threshold, local_now) ==
    LET result == detect_single_face(frame) IN
    IF result = NoObject
    THEN [logs |-> log_attendance(logs, None, "FAILURE", 0, local_now),
          result_data |-> NoObject, error |-> "No face detected",
          trace |-> <<"detect", "log">>]
    ELSE
    LET embedding == generate_embedding(session_loaded, result.face_crop) IN
    IF embedding = NoEmbedding
    THEN [logs |-> log_attendance(logs, None, "FAILURE", 0, local_now),
          result_data |-> NoObject, error |-> "Embedding generation failed",
          trace |-> <<"detect", "embed", "log">>]
    ELSE
    LET m == match_1_to_n(embedding, get_all_embeddings(table), threshold) IN
    [logs |-> IF m.student_id # None
              THEN log_attendance(logs, m.student_id, "SUCCESS", m.similarity_score, local_now)
              ELSE log_attendance(logs, None, "FAILURE", m.similarity_score, local_now),
     result_data |-> [student_id |-> m.student_id, student_name |-> m.student_name,
                      similarity_score |-> m.similarity_score, is_live |-> TRUE],
     error |-> None,
     trace |-> <<"detect", "embed", "store", "match", "log">>]

\* what an attempt on a frame runs into, in the terms of the outcome list
\* MATCHED, NO_MATCH, NO_FACE, MULTI_FACE, LIVENESS_FAILED, EMBEDDING_FAILED:
\* the branch process_attendance takes and the number of faces behind a None
\* of detect_single_face (the liveness check is skipped, so LIVENESS_FAILED
\* never occurs)
AttemptOutcome(frame, session_loaded, table, threshold) ==
    IF detect_faces_count(frame) = 0 THEN "NO_FACE"
    ELSE IF detect_faces_count(frame) >= 2 THEN "MULTI_FACE"
    ELSE LET embedding ==
                 generate_embedding(session_loaded, detect_single_face(frame).face_crop)
         IN  IF embedding = NoEmbedding THEN "EMBEDDING_FAILED"
             ELSE IF match_1_to_n(embedding, get_all_embeddings(table),
                                  threshold).student_id = None
                  THEN "NO_MATCH"
                  ELSE "MATCHED"

camera_runs_always(processing, result_data) == TRUE

\* line 210: the camera runs when nothing is being processed or displayed
camera_runs(processing, result_data) == ~processing /\ result_data = NoObject

blink_trigger_no_cooldown(is_blinking, current_time, last_blink_time) == is_blinking

\* line 253: a blink, and more than the cooldown since the last trigger
blink_trigger(is_blinking, current_time, last_blink_time) ==
    is_blinking /\ current_time - last_blink_time > BLINK_COOLDOWN

\* ------------------------------------- pages/student/mark_attendance.py
mark_attendance_gate_open(has_marked) == TRUE

\* lines 30-51: the page returns before the attendance interface when the
\* student has already marked today
mark_attendance_gate(has_marked) == ~has_marked

\* lines 218 and 228: the messages of the capture device
CameraOpenError == "Cannot access camera. Please check permissions."

CameraReadError == "Failed to read from camera"

DeviceErrors == {CameraOpenError, CameraReadError}

st_error_silent(page_run, message) == page_run

\* st.error: the message is displayed in the page of this run
st_error(page_run, message) == [page_run EXCEPT !.shown = message]

\* ------------------------------------------- auth/, utils/auth_utils.py, app.py
\* bcrypt: the hash of a password, and the check of a password against it
hash_password(password) == [bcrypt |-> password]

verify_password(password, hashed) == hashed.bcrypt = password

\* SELECT * FROM users WHERE username = ?: the row, or None
get_user_by_username(users_table, username) ==
    IF \E i \in 1..Len(users_table) : users_table[i].username = username
    THEN users_table[CHOOSE i \in 1..Len(users_table) :
                        users_table[i].username = username]
    ELSE NoObject

login_accepts_disabled(users_table, username, password) ==
    /\ username # ""
    /\ password # ""
    /\ get_user_by_username(users_table, username) # NoObject
    /\ verify_password(password,
                       get_user_by_username(users_table, username).password)

\* auth/login.py lines 26-40: both fields filled in, the user exists, the
\* password verifies and the account is active
login_accepts(users_table, username, password) ==
    /\ username # ""
    /\ password # ""
    /\ get_user_by_username(users_table, username) # NoObject
    /\ verify_password(password,
                       get_user_by_username(users_table, username).password)
    /\ get_user_by_username(users_table, username).is_active

\* st.session_state of a session that is not logged in
LoggedOut == [authenticated |-> FALSE, account |-> NoObject, entered |-> None]

\* auth/session.py
is_authenticated(session) == session.authenticated

is_admin(session) == session.account # NoObject /\ session.account.role = "admin"

\* require_auth: TRUE when the page may go on, FALSE when it calls st.stop()
require_auth(session, role) ==
    /\ is_authenticated(session)
    /\ (role # None) => (session.account.role = role)

\* app.py lines 48-134: what the script shows
app_route(session) ==
    IF ~is_authenticated(session) THEN "login"
    ELSE IF is_admin(session) THEN "admin_panel"
    ELSE "student_panel"

\* app.py line 130 and mark_attendance.py line 20: the run gets past
\* require_auth(role='student') of the Mark Attendance page
reaches_mark_attendance(session) ==
    /\ app_route(session) = "student_panel"
    /\ require_auth(session, "student")

\* ----------------------------------------------------------------- the state
VARIABLES
    students,           \* table students, in row order
    attendance_logs,    \* table attendance_logs, in insertion order
    utc,                \* the clock: seconds, UTC
    tz,                 \* the host's UTC offset
    session_loaded,     \* FaceEmbedder.session is not None
    threshold,          \* FaceMatcher.threshold, in hundredths
    user,               \* st.session_state['user']['student_id'] of a session
    pc,                 \* where the script of a session stands
    ss,                 \* st.session_state of a session
    cap,                \* the session holds an opened cv2.VideoCapture
    run,                \* what the current page run of a session has done
    cycles,             \* completed calls of process_attendance
    outcomes,           \* per row of attendance_logs, what the attempt ran into
    leaked,             \* a VideoCapture left open by an aborted run of a session
    m_query, m_db, m_out,   \* the matcher specification: inputs and result
    e_loaded, e_crop, e_out,    \* the embedder specification: inputs and result
    d_image, d_single, d_count, \* the detector specification: input and results
    written,            \* per id, what the last successful insert_student wrote
    l_frames, l_out,    \* the liveness specification: input and result
    auth,               \* per session: authenticated, the user row, the password entered
    users               \* table users, in row order

sysvars == <<students, attendance_logs, utc, tz, session_loaded, user, pc, ss,
             cap, run, cycles, outcomes, leaked>>
matchvars == <<threshold, m_query, m_db, m_out>>
embedvars == <<e_loaded, e_crop, e_out>>
detectvars == <<d_image, d_single, d_count>>
storevars == <<written>>
livevars == <<l_frames, l_out>>
authvars == <<auth, users>>
vars == <<students, attendance_logs, utc, tz, session_loaded, threshold, user,
          pc, ss, cap, run, cycles, outcomes, leaked, m_query, m_db, m_out,
          e_loaded, e_crop,
          e_out, d_image, d_single, d_count, written, l_frames, l_out,
          auth, users>>

\* the frames the camera delivers in the system specification: the crops of
\* two persons, a crop the model maps to the zero vector, an empty crop
CropA == [size |-> 1, raw |-> <<3>>, fault |-> "none"]
CropB == [size |-> 1, raw |-> <<0, 4>>, fault |-> "none"]
CropZero == [size |-> 1, raw |-> <<0, 0>>, fault |-> "none"]
CropEmpty == [size |-> 0, raw |-> <<3>>, fault |-> "none"]

\* the frames of the system specifications have one size and the face in
\* one place
SysShape == [h |-> MaxHeight, w |-> MaxWidth]

SysBox == [x |-> 2, y |-> 2, w |-> 2, h |-> 2]

SysFrames ==
    {[faces |-> 1, landmarks |-> FALSE, ear |-> 0, crop |-> CropA,
      shape |-> SysShape, box |-> SysBox],
     [faces |-> 1, landmarks |-> TRUE, ear |-> 25, crop |-> CropA,
      shape |-> SysShape, box |-> SysBox],
     [faces |-> 0, landmarks |-> TRUE, ear |-> 15, crop |-> CropEmpty,
      shape |-> SysShape, box |-> SysBox],
     [faces |-> 2, landmarks |-> TRUE, ear |-> 15, crop |-> CropA,
      shape |-> SysShape, box |-> SysBox],
     [faces |-> 1, landmarks |-> TRUE, ear |-> 15, crop |-> CropA,
      shape |-> SysShape, box |-> SysBox],
     [faces |-> 1, landmarks |-> TRUE, ear |-> 15, crop |-> CropB,
      shape |-> SysShape, box |-> SysBox],
     [faces |-> 1, landmarks |-> TRUE, ear |-> 15, crop |-> CropZero,
      shape |-> SysShape, box |-> SysBox],
     [faces |-> 1, landmarks |-> TRUE, ear |-> 15, crop |-> CropEmpty,
      shape |-> SysShape, box |-> SysBox]}

\* lines 172-186 of pages/attendance.py
InitSessionState ==
    [processing |-> FALSE, last_result_time |-> 0, result_data |-> NoObject,
     blink_detected |-> FALSE, last_blink_time |-> 0]

\* what a page run has done so far: the result of the pre-check, the length
\* of the log it saw, the camera, the frame that triggered the capture, the
\* stages process_attendance ran on it, the row it appended and the error
\* message it displayed
InitRun ==
    [has_marked |-> FALSE, seen |-> 0, cam_opened |-> FALSE,
     frame_read |-> FALSE, frame |-> NoObject, trace |-> <<>>, row |-> 0,
     shown |-> None]

InitSys ==
    /\ students = <<>>
    /\ attendance_logs = <<>>
    /\ utc = DayLen
    /\ tz \in HostOffsets
    /\ session_loaded \in BOOLEAN
    /\ user = [s \in Sessions |-> "STU1"]
    /\ pc = [s \in Sessions |-> "idle"]
    /\ ss = [s \in Sessions |-> InitSessionState]
    /\ cap = [s \in Sessions |-> FALSE]
    /\ run = [s \in Sessions |-> InitRun]
    /\ cycles = 0
    /\ outcomes = <<>>
    /\ leaked = [s \in Sessions |-> FALSE]

NotCalledMatch ==
    [called |-> FALSE, student_id |-> None, student_name |-> None,
     similarity_score |-> 0]

NotCalledEmbed == [called |-> FALSE, raised |-> FALSE, value |-> NoEmbedding]

InitMatchIdle ==
    /\ threshold = COSINE_SIMILARITY_THRESHOLD
    /\ m_query = ZeroVector
    /\ m_db = <<>>
    /\ m_out = NotCalledMatch

InitEmbedIdle ==
    /\ e_loaded = FALSE
    /\ e_crop = NoObject
    /\ e_out = NotCalledEmbed

NotCalledDetect == [called |-> FALSE, value |-> NoObject]

NotCalledCount == [called |-> FALSE, value |-> 0]

InitDetectIdle ==
    /\ d_image = [faces |-> 0, landmarks |-> FALSE, ear |-> 0, crop |-> CropEmpty,
      shape |-> SysShape, box |-> SysBox]
    /\ d_single = NotCalledDetect
    /\ d_count = NotCalledCount

InitStoreEmpty == written = [id \in StoreIds |-> NoObject]

\* the accounts: the default admin (migrate_db.py) and the students' accounts
\* the admin created (pages/admin/user_management.py)
DefaultUsers ==
    <<[username |-> "admin", password |-> hash_password("admin123"),
       role |-> "admin", is_active |-> TRUE, student_id |-> "ADMIN001"],
      [username |-> "ann", password |-> hash_password("pw1"),
       role |-> "student", is_active |-> TRUE, student_id |-> "STU1"],
      [username |-> "bob", password |-> hash_password("pw2"),
       role |-> "student", is_active |-> TRUE, student_id |-> "STU2"]>>

\* every session is logged in as the student whose id it carries
InitAuthLoggedIn ==
    /\ users = DefaultUsers
    /\ auth = [s \in Sessions |->
                 LET row == IF user[s] = "STU1" THEN DefaultUsers[2] ELSE DefaultUsers[3]
                 IN  [authenticated |-> TRUE, account |-> row,
                      entered |-> row.password.bcrypt]]

NotCalledLiveness == [called |-> FALSE, is_live |-> FALSE, reason |-> None]

InitLiveIdle ==
    /\ l_frames = <<>>
    /\ l_out = NotCalledLiveness

InitSysIdle ==
    /\ students = <<>>
    /\ attendance_logs = <<>>
    /\ utc = DayLen
    /\ tz = 0
    /\ session_loaded = FALSE
    /\ user = [s \in Sessions |-> "STU1"]
    /\ pc = [s \in Sessions |-> "idle"]
    /\ ss = [s \in Sessions |-> InitSessionState]
    /\ cap = [s \in Sessions |-> FALSE]
    /\ run = [s \in Sessions |-> InitRun]
    /\ cycles = 0
    /\ outcomes = <<>>
    /\ leaked = [s \in Sessions |-> FALSE]

Init ==
    /\ InitSys
    /\ InitMatchIdle
    /\ InitEmbedIdle
    /\ InitDetectIdle
    /\ InitStoreEmpty
    /\ InitLiveIdle
    /\ InitAuthLoggedIn

\* ------------------------------------------------------------------- actions
\* time passes
Tick ==
    /\ utc < MaxTime
    /\ utc' = utc + 1
    /\ UNCHANGED <<students, attendance_logs, tz, session_loaded, user, pc, ss,
                   cap, run, cycles, outcomes, leaked>>
    /\ UNCHANGED <<matchvars, embedvars, detectvars, storevars, livevars, authvars>>

\* pages/register.py: the admin captures a photo and registers a student
RegisterStudent(student_id, student_name, image) ==
    /\ detect_single_face(image) # NoObject
    /\ LET embedding == generate_embedding(session_loaded,
                                           detect_single_face(image).face_crop)
       IN  /\ embedding # NoEmbedding
           /\ students' = insert_student(students, student_id, student_name, embedding)
           /\ written' = [written EXCEPT ![student_id] =
                             [student_name |-> student_name, embedding |-> embedding]]
    /\ UNCHANGED <<attendance_logs, utc, tz, session_loaded, user, pc, ss, cap,
                   run, cycles, outcomes, leaked>>
    /\ UNCHANGED <<matchvars, embedvars, detectvars, livevars, authvars>>

\* the student opens or interacts with the Mark Attendance page: the script
\* of the session runs again
UserRerun(s) ==
    /\ pc[s] = "idle"
    /\ pc' = [pc EXCEPT ![s] = "start"]
    /\ UNCHANGED <<students, attendance_logs, utc, tz, session_loaded, user, ss,
                   cap, run, cycles, outcomes, leaked>>
    /\ UNCHANGED <<matchvars, embedvars, detectvars, storevars, livevars, authvars>>

\* one run of the script with Mark Attendance selected, up to the scanning
\* loop: app.py lines 48-130,
\* pages/student/mark_attendance.py show(), then pages/attendance.py show()
\* lines 154-222 and, when the loop is not entered, lines 280-314
MarkAttendanceShow(s) ==
    /\ pc[s] = "start"
    /\ LET has_marked == check_attendance_today(attendance_logs, user[s], utc)
           r0 == [InitRun EXCEPT !.has_marked = has_marked,
                                 !.seen = Len(attendance_logs)]
       IN
       IF ~reaches_mark_attendance(auth[s])
       THEN /\ pc' = [pc EXCEPT ![s] = "idle"]
            /\ UNCHANGED <<ss, cap, run>>
       ELSE IF ~mark_attendance_gate(has_marked)
       THEN /\ pc' = [pc EXCEPT ![s] = "idle"]
            /\ run' = [run EXCEPT ![s] = r0]
            /\ UNCHANGED <<ss, cap>>
       ELSE IF get_student_count(students) = 0
       THEN /\ pc' = [pc EXCEPT ![s] = "idle"]
            /\ run' = [run EXCEPT ![s] = r0]
            /\ UNCHANGED <<ss, cap>>
       ELSE IF /\ ss[s].result_data # NoObject
               /\ utc - ss[s].last_result_time > RESULT_DWELL
       THEN /\ ss' = [ss EXCEPT ![s].result_data = NoObject,
                                ![s].processing = FALSE,
                                ![s].blink_detected = FALSE]
            /\ pc' = [pc EXCEPT ![s] = "start"]
            /\ run' = [run EXCEPT ![s] = r0]
            /\ UNCHANGED cap
       ELSE IF camera_runs(ss[s].processing, ss[s].result_data)
       THEN \E opened \in BOOLEAN :
               IF opened
               THEN /\ cap' = [cap EXCEPT ![s] = TRUE]
                    /\ run' = [run EXCEPT ![s] = [r0 EXCEPT !.cam_opened = TRUE]]
                    /\ pc' = [pc EXCEPT ![s] = "loop"]
                    /\ UNCHANGED ss
               ELSE /\ pc' = [pc EXCEPT ![s] = "idle"]
                    /\ run' = [run EXCEPT ![s] = st_error(r0, CameraOpenError)]
                    /\ UNCHANGED <<ss, cap>>
       ELSE /\ pc' = [pc EXCEPT ![s] = "idle"]
            /\ run' = [run EXCEPT ![s] = r0]
            /\ UNCHANGED <<ss, cap>>
    /\ UNCHANGED <<students, attendance_logs, utc, tz, session_loaded, user,
                   cycles, outcomes, leaked>>
    /\ UNCHANGED <<matchvars, embedvars, detectvars, storevars, livevars, authvars>>

ScanFrame_logs_authenticated_user(s) ==
    /\ pc[s] = "loop"
    /\ IF ss[s].blink_detected
       THEN /\ cap' = [cap EXCEPT ![s] = FALSE]
            /\ pc' = [pc EXCEPT ![s] = "idle"]
            /\ UNCHANGED <<attendance_logs, utc, ss, run, cycles, outcomes>>
       ELSE \E ret \in BOOLEAN, frame \in SysFrames :
          IF ~ret
          THEN /\ cap' = [cap EXCEPT ![s] = FALSE]
               /\ pc' = [pc EXCEPT ![s] = "idle"]
               /\ run' = [run EXCEPT ![s] = st_error(run[s], CameraReadError)]
               /\ UNCHANGED <<attendance_logs, utc, ss, cycles, outcomes>>
          ELSE IF blink_trigger(detect_blink(frame).is_closed, utc,
                                ss[s].last_blink_time)
          THEN /\ Len(attendance_logs) < MaxLog
               /\ LET p == process_attendance(frame, session_loaded, students,
                               attendance_logs, threshold, LocalNow(utc, tz))
                      r == [p EXCEPT !.logs[Len(p.logs)].student_id =
                                         IF @ # None THEN user[s] ELSE @]
                  IN  /\ attendance_logs' = r.logs
                      /\ outcomes' = Append(outcomes,
                             AttemptOutcome(frame, session_loaded, students, threshold))
                      /\ cycles' = cycles + 1
                      /\ LET attempt == [run[s] EXCEPT !.frame_read = TRUE,
                                                        !.frame = frame,
                                                        !.trace = r.trace,
                                                        !.row = Len(r.logs)]
                         IN  run' = [run EXCEPT ![s] =
                                        IF r.error # None
                                        THEN st_error(attempt, r.error)
                                        ELSE attempt]
                      /\ IF r.error # None
                         THEN /\ utc < MaxTime
                              /\ utc' = utc + 1
                              /\ ss' = [ss EXCEPT ![s].blink_detected = FALSE,
                                                  ![s].last_blink_time = utc,
                                                  ![s].processing = FALSE]
                         ELSE /\ utc' = utc
                              /\ ss' = [ss EXCEPT ![s].blink_detected = TRUE,
                                                  ![s].last_blink_time = utc,
                                                  ![s].processing = TRUE,
                                                  ![s].result_data = r.result_data,
                                                  ![s].last_result_time = utc]
               /\ cap' = [cap EXCEPT ![s] = FALSE]
               /\ pc' = [pc EXCEPT ![s] = "start"]
          ELSE /\ run' = [run EXCEPT ![s].frame_read = TRUE]
               /\ UNCHANGED <<attendance_logs, utc, ss, cap, pc, cycles, outcomes>>
    /\ UNCHANGED <<students, tz, session_loaded, user, leaked>>
    /\ UNCHANGED <<matchvars, embedvars, detectvars, storevars, livevars, authvars>>

\* pages/attendance.py show(), lines 224-278: one pass of the scanning loop
ScanFrame(s) ==
    /\ pc[s] = "loop"
    /\ IF ss[s].blink_detected
       THEN /\ cap' = [cap EXCEPT ![s] = FALSE]
            /\ pc' = [pc EXCEPT ![s] = "idle"]
            /\ UNCHANGED <<attendance_logs, utc, ss, run, cycles, outcomes>>
       ELSE \E ret \in BOOLEAN, frame \in SysFrames :
          IF ~ret
          THEN /\ cap' = [cap EXCEPT ![s] = FALSE]
               /\ pc' = [pc EXCEPT ![s] = "idle"]
               /\ run' = [run EXCEPT ![s] = st_error(run[s], CameraReadError)]
               /\ UNCHANGED <<attendance_logs, utc, ss, cycles, outcomes>>
          ELSE IF blink_trigger(detect_blink(frame).is_closed, utc,
                                ss[s].last_blink_time)
          THEN /\ Len(attendance_logs) < MaxLog
               /\ LET r == process_attendance(frame, session_loaded, students,
                               attendance_logs, threshold, LocalNow(utc, tz))
                  IN  /\ attendance_logs' = r.logs
                      /\ outcomes' = Append(outcomes,
                             AttemptOutcome(frame, session_loaded, students, threshold))
                      /\ cycles' = cycles + 1
                      /\ LET attempt == [run[s] EXCEPT !.frame_read = TRUE,
                                                        !.frame = frame,
                                                        !.trace = r.trace,
                                                        !.row = Len(r.logs)]
                         IN  run' = [run EXCEPT ![s] =
                                        IF r.error # None
                                        THEN st_error(attempt, r.error)
                                        ELSE attempt]
                      /\ IF r.error # None
                         THEN /\ utc < MaxTime
                              /\ utc' = utc + 1
                              /\ ss' = [ss EXCEPT ![s].blink_detected = FALSE,
                                                  ![s].last_blink_time = utc,
                                                  ![s].processing = FALSE]
                         ELSE /\ utc' = utc
                              /\ ss' = [ss EXCEPT ![s].blink_detected = TRUE,
                                                  ![s].last_blink_time = utc,
                                                  ![s].processing = TRUE,
                                                  ![s].result_data = r.result_data,
                                                  ![s].last_result_time = utc]
               /\ cap' = [cap EXCEPT ![s] = FALSE]
               /\ pc' = [pc EXCEPT ![s] = "start"]
          ELSE /\ run' = [run EXCEPT ![s].frame_read = TRUE]
               /\ UNCHANGED <<attendance_logs, utc, ss, cap, pc, cycles, outcomes>>
    /\ UNCHANGED <<students, tz, session_loaded, user, leaked>>
    /\ UNCHANGED <<matchvars, embedvars, detectvars, storevars, livevars, authvars>>

\* lines 224-249: the user interacts with the page while the loop runs;
\* Streamlit ends the script run at the next st call (FRAME_WINDOW.image) and
\* starts a new one.  Line 278 is not reached: the VideoCapture stays open
\* until the interpreter finalizes the object, if it does.
ScriptStopped(s) ==
    /\ pc[s] = "loop"
    /\ ~ss[s].blink_detected
    /\ \E finalized \in BOOLEAN :
          leaked' = [leaked EXCEPT ![s] = leaked[s] \/ ~finalized]
    /\ cap' = [cap EXCEPT ![s] = FALSE]
    /\ run' = [run EXCEPT ![s].frame_read = TRUE]
    /\ pc' = [pc EXCEPT ![s] = "start"]
    /\ UNCHANGED <<students, attendance_logs, utc, tz, session_loaded, user, ss,
                   cycles, outcomes>>
    /\ UNCHANGED <<matchvars, embedvars, detectvars, storevars, livevars, authvars>>

\* lines 253-264: the capture triggers, process_attendance returns an error,
\* and the script run is ended at st.error by a user interaction that arrived
\* meanwhile: lines 265-272 are not reached
ScriptStoppedAtError(s) ==
    /\ pc[s] = "loop"
    /\ ~ss[s].blink_detected
    /\ Len(attendance_logs) < MaxLog
    /\ \E frame \in SysFrames, finalized \in BOOLEAN :
          LET r == process_attendance(frame, session_loaded, students,
                       attendance_logs, threshold, LocalNow(utc, tz))
          IN  /\ blink_trigger(detect_blink(frame).is_closed, utc,
                               ss[s].last_blink_time)
              /\ r.error # None
              /\ attendance_logs' = r.logs
              /\ outcomes' = Append(outcomes,
                     AttemptOutcome(frame, session_loaded, students, threshold))
              /\ cycles' = cycles + 1
              /\ run' = [run EXCEPT ![s].frame_read = TRUE,
                                    ![s].frame = frame,
                                    ![s].trace = r.trace,
                                    ![s].row = Len(r.logs)]
              /\ ss' = [ss EXCEPT ![s].blink_detected = TRUE,
                                  ![s].last_blink_time = utc,
                                  ![s].processing = TRUE]
              /\ leaked' = [leaked EXCEPT ![s] = leaked[s] \/ ~finalized]
    /\ cap' = [cap EXCEPT ![s] = FALSE]
    /\ pc' = [pc EXCEPT ![s] = "start"]
    /\ UNCHANGED <<students, utc, tz, session_loaded, user>>
    /\ UNCHANGED <<matchvars, embedvars, detectvars, storevars, livevars, authvars>>

\* the stages of process_attendance that can raise: detect_single_face
\* (cv2.cvtColor, MediaPipe) and match_1_to_n (sklearn rejects the arrays);
\* generate_embedding catches its own exceptions, the database methods too
PipelineFaults == {"detect", "match"}

\* lines 253-261: the capture triggers and a stage of process_attendance
\* raises.  The exception leaves show(): nothing is logged, processing and
\* blink_detected stay set, cap.release() is not reached.
PipelineFault(s) ==
    /\ pc[s] = "loop"
    /\ ~ss[s].blink_detected
    /\ \E frame \in SysFrames, stage \in PipelineFaults, finalized \in BOOLEAN :
          /\ blink_trigger(detect_blink(frame).is_closed, utc,
                           ss[s].last_blink_time)
          /\ stage = "match" =>
                /\ detect_single_face(frame) # NoObject
                /\ generate_embedding(session_loaded,
                       detect_single_face(frame).face_crop) # NoEmbedding
          /\ run' = [run EXCEPT ![s].frame_read = TRUE,
                                ![s].frame = frame,
                                ![s].trace = IF stage = "detect"
                                             THEN <<"detect">>
                                             ELSE <<"detect", "embed", "store", "match">>]
          /\ leaked' = [leaked EXCEPT ![s] = leaked[s] \/ ~finalized]
    /\ ss' = [ss EXCEPT ![s].blink_detected = TRUE,
                        ![s].last_blink_time = utc,
                        ![s].processing = TRUE]
    /\ cap' = [cap EXCEPT ![s] = FALSE]
    /\ pc' = [pc EXCEPT ![s] = "idle"]
    /\ UNCHANGED <<students, attendance_logs, utc, tz, session_loaded, user,
                   cycles, outcomes>>
    /\ UNCHANGED <<matchvars, embedvars, detectvars, storevars, livevars, authvars>>

Next ==
    \/ Tick
    \/ \E id \in StudentIds, name \in {"Ann"}, image \in SysFrames :
          RegisterStudent(id, name, image)
    \/ \E s \in {"s1"} : UserRerun(s)
    \/ \E s \in {"s1"} : MarkAttendanceShow(s)
    \/ \E s \in {"s1"} : ScanFrame(s)

\* one student session, the admin's registrations, the clock
Spec == Init /\ [][Next]_vars

\* host clock on UTC, model loaded
InitOnUtc ==
    /\ InitSys
    /\ tz = 0
    /\ session_loaded
    /\ InitMatchIdle
    /\ InitEmbedIdle
    /\ InitDetectIdle
    /\ InitStoreEmpty
    /\ InitLiveIdle
    /\ InitAuthLoggedIn

\* the script runs on and time passes; nothing makes the user act
SpecLive ==
    /\ InitOnUtc
    /\ [][Next]_vars
    /\ WF_vars(Tick)
    /\ WF_vars(\E s \in {"s1"} : MarkAttendanceShow(s))

\* a populated database and what was written to it
PopulatedStores ==
    {insert_student(insert_student(<<>>, "STU1", "Ann", UnitAxis(1)),
                    "STU2", "Bob", UnitAxis(2))}

PopulatedWritten ==
    [id \in StoreIds |->
        IF id = "STU1" THEN [student_name |-> "Ann", embedding |-> UnitAxis(1)]
        ELSE IF id = "STU2" THEN [student_name |-> "Bob", embedding |-> UnitAxis(2)]
        ELSE NoObject]

\* the script runs that end in an exception, on a populated database: a stop
\* by Streamlit on a user interaction, a stage of the pipeline that raises
InitFaults ==
    /\ students \in PopulatedStores
    /\ written = PopulatedWritten
    /\ InitLiveIdle
    /\ attendance_logs = <<>>
    /\ utc = DayLen
    /\ tz = 0
    /\ session_loaded = TRUE
    /\ user = [s \in Sessions |-> "STU1"]
    /\ pc = [s \in Sessions |-> "idle"]
    /\ ss = [s \in Sessions |-> InitSessionState]
    /\ cap = [s \in Sessions |-> FALSE]
    /\ run = [s \in Sessions |-> InitRun]
    /\ cycles = 0
    /\ outcomes = <<>>
    /\ leaked = [s \in Sessions |-> FALSE]
    /\ InitMatchIdle
    /\ InitEmbedIdle
    /\ InitDetectIdle
    /\ InitAuthLoggedIn

NextFaults ==
    \/ Tick
    \/ \E s \in {"s1"} : UserRerun(s)
    \/ \E s \in {"s1"} : MarkAttendanceShow(s)
    \/ \E s \in {"s1"} : ScanFrame(s)
    \/ \E s \in {"s1"} : ScriptStopped(s)
    \/ \E s \in {"s1"} : ScriptStoppedAtError(s)
    \/ \E s \in {"s1"} : PipelineFault(s)

SpecFaults == InitFaults /\ [][NextFaults]_vars

\* the same runs with the clock and the script running on and a user who
\* keeps interacting with the page
SpecFaultsLive ==
    /\ InitFaults
    /\ [][NextFaults]_vars
    /\ WF_vars(Tick)
    /\ WF_vars(\E s \in {"s1"} : UserRerun(s))
    /\ WF_vars(\E s \in {"s1"} : MarkAttendanceShow(s))

\* databases for the rows of the log: the populated one, and one whose first
\* student is enrolled with a signature between those of the camera's faces
NearStores ==
    PopulatedStores
    \cup {insert_student(insert_student(<<>>, "STU1", "Ann", <<3, 4>>),
                         "STU2", "Bob", UnitAxis(2))}

\* what the rows of a table say was written
WrittenOf(table) ==
    [id \in StoreIds |->
        IF \E i \in 1..Len(table) : table[i].student_id = id
        THEN LET i == CHOOSE i \in 1..Len(table) : table[i].student_id = id
             IN  [student_name |-> table[i].student_name,
                  embedding |-> pickle_loads(table[i].embedding)]
        ELSE NoObject]

InitRows ==
    /\ students \in NearStores
    /\ written = WrittenOf(students)
    /\ InitLiveIdle
    /\ attendance_logs = <<>>
    /\ utc = DayLen
    /\ tz = 0
    /\ session_loaded = TRUE
    /\ user = [s \in Sessions |-> "STU1"]
    /\ pc = [s \in Sessions |-> "idle"]
    /\ ss = [s \in Sessions |-> InitSessionState]
    /\ cap = [s \in Sessions |-> FALSE]
    /\ run = [s \in Sessions |-> InitRun]
    /\ cycles = 0
    /\ outcomes = <<>>
    /\ leaked = [s \in Sessions |-> FALSE]
    /\ InitMatchIdle
    /\ InitEmbedIdle
    /\ InitDetectIdle
    /\ InitAuthLoggedIn

\* every way an attempt is made, on these databases
SpecRows == InitRows /\ [][NextFaults]_vars

\* two sessions of the same student on a populated database, host clock on
\* UTC
InitConcurrent ==
    /\ students \in PopulatedStores
    /\ attendance_logs = <<>>
    /\ utc = DayLen
    /\ tz = 0
    /\ session_loaded = TRUE
    /\ user = [s \in Sessions |-> "STU1"]
    /\ pc = [s \in Sessions |-> "idle"]
    /\ ss = [s \in Sessions |-> InitSessionState]
    /\ cap = [s \in Sessions |-> FALSE]
    /\ run = [s \in Sessions |-> InitRun]
    /\ cycles = 0
    /\ outcomes = <<>>
    /\ leaked = [s \in Sessions |-> FALSE]
    /\ InitMatchIdle
    /\ InitEmbedIdle
    /\ InitDetectIdle
    /\ written = PopulatedWritten
    /\ InitLiveIdle
    /\ InitAuthLoggedIn

\* two sessions of different students on the same database
InitTwoUsers ==
    /\ students \in PopulatedStores
    /\ written = PopulatedWritten
    /\ InitLiveIdle
    /\ attendance_logs = <<>>
    /\ utc = DayLen
    /\ tz = 0
    /\ session_loaded = TRUE
    /\ user = [s \in Sessions |-> IF s = "s1" THEN "STU1" ELSE "STU2"]
    /\ pc = [s \in Sessions |-> "idle"]
    /\ ss = [s \in Sessions |-> InitSessionState]
    /\ cap = [s \in Sessions |-> FALSE]
    /\ run = [s \in Sessions |-> InitRun]
    /\ cycles = 0
    /\ outcomes = <<>>
    /\ leaked = [s \in Sessions |-> FALSE]
    /\ InitMatchIdle
    /\ InitEmbedIdle
    /\ InitDetectIdle
    /\ InitAuthLoggedIn

NextConcurrent ==
    \/ Tick
    \/ \E s \in Sessions : UserRerun(s)
    \/ \E s \in Sessions : MarkAttendanceShow(s)
    \/ \E s \in Sessions : ScanFrame(s)

SpecConcurrent == InitConcurrent /\ [][NextConcurrent]_vars

SpecTwoUsers == InitTwoUsers /\ [][NextConcurrent]_vars

\* ------------------------------------------------ login, logout, accounts
Usernames == {"admin", "ann", "bob", "eve", ""}

Passwords == {"admin123", "pw1", "pw2", ""}

\* nobody is logged in; a populated database, host clock on UTC
InitAuth ==
    /\ students \in PopulatedStores
    /\ written = PopulatedWritten
    /\ InitLiveIdle
    /\ attendance_logs = <<>>
    /\ utc = DayLen
    /\ tz = 0
    /\ session_loaded = TRUE
    /\ user = [s \in Sessions |-> None]
    /\ pc = [s \in Sessions |-> "idle"]
    /\ ss = [s \in Sessions |-> InitSessionState]
    /\ cap = [s \in Sessions |-> FALSE]
    /\ run = [s \in Sessions |-> InitRun]
    /\ cycles = 0
    /\ outcomes = <<>>
    /\ leaked = [s \in Sessions |-> FALSE]
    /\ InitMatchIdle
    /\ InitEmbedIdle
    /\ InitDetectIdle
    /\ users = DefaultUsers
    /\ auth = [s \in Sessions |-> LoggedOut]

\* auth/login.py show(), lines 25-49: the Login button of the login page
Login(s, username, password) ==
    /\ pc[s] = "idle"
    /\ app_route(auth[s]) = "login"
    /\ IF login_accepts(users, username, password)
       THEN LET row == get_user_by_username(users, username) IN
            /\ auth' = [auth EXCEPT ![s] = [authenticated |-> TRUE, account |-> row,
                                            entered |-> password]]
            /\ user' = [user EXCEPT ![s] = row.student_id]
       ELSE UNCHANGED <<auth, user>>
    /\ UNCHANGED <<students, attendance_logs, utc, tz, session_loaded, pc, ss,
                   cap, run, cycles, outcomes, leaked, users>>
    /\ UNCHANGED <<matchvars, embedvars, detectvars, storevars, livevars>>

\* app.py lines 62-63 and auth/session.py logout(): the Logout button;
\* st.session_state.clear() removes every key, those of the attendance page
\* included.  Pressed while the loop scans, the running script is ended
\* first, as in ScriptStopped.
Logout(s) ==
    /\ pc[s] \in {"idle", "loop"}
    /\ is_authenticated(auth[s])
    /\ auth' = [auth EXCEPT ![s] = LoggedOut]
    /\ user' = [user EXCEPT ![s] = None]
    /\ ss' = [ss EXCEPT ![s] = InitSessionState]
    /\ run' = [run EXCEPT ![s] = InitRun]
    /\ pc' = [pc EXCEPT ![s] = "idle"]
    /\ cap' = [cap EXCEPT ![s] = FALSE]
    /\ IF pc[s] = "loop"
       THEN \E finalized \in BOOLEAN :
               leaked' = [leaked EXCEPT ![s] = leaked[s] \/ ~finalized]
       ELSE UNCHANGED leaked
    /\ UNCHANGED <<students, attendance_logs, utc, tz, session_loaded, cycles,
                   outcomes, users>>
    /\ UNCHANGED <<matchvars, embedvars, detectvars, storevars, livevars>>

\* pages/admin/user_management.py line 93, toggle_user_status: the admin
\* disables or enables a student's account
ToggleUserStatus(i) ==
    /\ i \in 1..Len(users)
    /\ users[i].role = "student"
    /\ users' = [users EXCEPT ![i].is_active = ~@]
    /\ UNCHANGED auth
    /\ UNCHANGED <<sysvars, matchvars, embedvars, detectvars, storevars, livevars>>

NextAuth ==
    \/ Tick
    \/ \E s \in {"s1"}, username \in Usernames, password \in Passwords :
          Login(s, username, password)
    \/ \E s \in {"s1"} : Logout(s)
    \/ \E i \in {Len(DefaultUsers)} : ToggleUserStatus(i)
    \/ \E s \in {"s1"} : UserRerun(s)
    \/ \E s \in {"s1"} : MarkAttendanceShow(s)
    \/ \E s \in {"s1"} : ScanFrame(s)

SpecAuth == InitAuth /\ [][NextAuth]_vars

\* ------------------------------------------ FaceMatcher on its own inputs
\* the ids of a candidate list are distinct (students.student_id is the
\* primary key); position i carries the i-th id
CandidateIds == <<"STU1", "STU2", "STU3", "STU4">>

CandidateLists ==
    UNION {{db \in [1..n -> [student_id : {CandidateIds[i] : i \in 1..n},
                             student_name : StudentNames,
                             embedding : Signatures]] :
               \A i \in 1..n : db[i].student_id = CandidateIds[i]} : n \in 0..MaxCand}

Thresholds == {0, COSINE_SIMILARITY_THRESHOLD, 100, 120}

InitMatcher ==
    /\ InitSysIdle
    /\ InitEmbedIdle
    /\ InitDetectIdle
    /\ InitStoreEmpty
    /\ InitLiveIdle
    /\ threshold = COSINE_SIMILARITY_THRESHOLD
    /\ m_query \in Signatures
    /\ m_db \in CandidateLists
    /\ m_out = NotCalledMatch
    /\ InitAuthLoggedIn

\* FaceMatcher.set_threshold
SetThreshold(t) ==
    /\ ~m_out.called
    /\ threshold' = t
    /\ UNCHANGED <<m_query, m_db, m_out>>
    /\ UNCHANGED <<sysvars, embedvars, detectvars, storevars, livevars, authvars>>

\* FaceMatcher.match_1_to_n
MatchCall ==
    /\ ~m_out.called
    /\ LET m == match_1_to_n(m_query, m_db, threshold) IN
       m_out' = [called |-> TRUE, student_id |-> m.student_id,
                 student_name |-> m.student_name,
                 similarity_score |-> m.similarity_score]
    /\ UNCHANGED <<threshold, m_query, m_db>>
    /\ UNCHANGED <<sysvars, embedvars, detectvars, storevars, livevars, authvars>>

NextMatcher ==
    \/ \E t \in Thresholds : SetThreshold(t)
    \/ MatchCall

SpecMatcher == InitMatcher /\ [][NextMatcher]_vars

\* ----------------------------------------- FaceEmbedder on its own inputs
InitEmbedder ==
    /\ InitSysIdle
    /\ InitMatchIdle
    /\ InitDetectIdle
    /\ InitStoreEmpty
    /\ InitLiveIdle
    /\ e_loaded \in BOOLEAN
    /\ e_crop \in Crops \cup {NoObject}
    /\ e_out = NotCalledEmbed
    /\ InitAuthLoggedIn

\* FaceEmbedder.generate_embedding
EmbedCall ==
    /\ ~e_out.called
    /\ LET r == generate_embedding_call(e_loaded, e_crop) IN
       e_out' = [called |-> TRUE, raised |-> r.raised, value |-> r.value]
    /\ UNCHANGED <<e_loaded, e_crop>>
    /\ UNCHANGED <<sysvars, matchvars, detectvars, storevars, livevars, authvars>>

NextEmbedder == EmbedCall

SpecEmbedder == InitEmbedder /\ [][NextEmbedder]_vars

\* ----------------------------------------- FaceDetector on its own inputs
\* the shapes of the frames and the bounding boxes that lie inside a frame
Shapes == [h : {MaxHeight}, w : {MaxWidth - 1, MaxWidth}]

Boxes(shape) ==
    {b \in [x : 0..(shape.w - 1), y : 0..(shape.h - 1), w : 1..MaxBox, h : 1..MaxBox] :
        b.x + b.w <= shape.w /\ b.y + b.h <= shape.h}

DetectorFrames ==
    UNION {[faces : 0..MaxFaces, landmarks : BOOLEAN, ear : {15, 25},
            crop : {CropA, CropB, CropZero, CropEmpty},
            shape : {shape}, box : Boxes(shape)] : shape \in Shapes}

InitDetector ==
    /\ InitSysIdle
    /\ InitMatchIdle
    /\ InitEmbedIdle
    /\ InitStoreEmpty
    /\ InitLiveIdle
    /\ d_image \in DetectorFrames
    /\ d_single = NotCalledDetect
    /\ d_count = NotCalledCount
    /\ InitAuthLoggedIn

\* FaceDetector.detect_single_face
DetectSingleFaceCall ==
    /\ ~d_single.called
    /\ d_single' = [called |-> TRUE, value |-> detect_single_face(d_image)]
    /\ UNCHANGED <<d_image, d_count>>
    /\ UNCHANGED <<sysvars, matchvars, embedvars, storevars, livevars, authvars>>

\* FaceDetector.detect_faces_count
DetectFacesCountCall ==
    /\ ~d_count.called
    /\ d_count' = [called |-> TRUE, value |-> detect_faces_count(d_image)]
    /\ UNCHANGED <<d_image, d_single>>
    /\ UNCHANGED <<sysvars, matchvars, embedvars, storevars, livevars, authvars>>

NextDetector ==
    \/ DetectSingleFaceCall
    \/ DetectFacesCountCall

SpecDetector == InitDetector /\ [][NextDetector]_vars

\* ------------------------------------- the enrolled store on its own inputs
\* the signatures the admin pages hand to insert_student
StoreEmbeddings == {UnitAxis(1), UnitAxis(2), ZeroVector}

InitStore ==
    /\ InitSysIdle
    /\ InitMatchIdle
    /\ InitEmbedIdle
    /\ InitDetectIdle
    /\ InitStoreEmpty
    /\ InitLiveIdle
    /\ InitAuthLoggedIn

\* Database.insert_student: the statement succeeds, or it raises (a NULL name
\* violates NOT NULL, the database is locked), the except clause returns False
\* and the table is as before
InsertStudent(student_id, student_name, embedding, ok) ==
    /\ IF ok /\ student_name # None
       THEN /\ students' = insert_student(students, student_id, student_name, embedding)
            /\ written' = [written EXCEPT ![student_id] =
                              [student_name |-> student_name, embedding |-> embedding]]
       ELSE UNCHANGED <<students, written>>
    /\ UNCHANGED <<attendance_logs, utc, tz, session_loaded, user, pc, ss, cap,
                   run, cycles, outcomes, leaked>>
    /\ UNCHANGED <<matchvars, embedvars, detectvars, livevars, authvars>>

\* pages/manage_students.py, Update Name: the row read by get_all_embeddings
\* is written back under the new name
UpdateName(i, new_name) ==
    /\ i \in 1..Len(students)
    /\ LET current == get_all_embeddings(students)[i] IN
       /\ new_name # current.student_name
       /\ students' = insert_student(students, current.student_id, new_name,
                                     current.embedding)
       /\ written' = [written EXCEPT ![current.student_id] =
                         [student_name |-> new_name, embedding |-> current.embedding]]
    /\ UNCHANGED <<attendance_logs, utc, tz, session_loaded, user, pc, ss, cap,
                   run, cycles, outcomes, leaked>>
    /\ UNCHANGED <<matchvars, embedvars, detectvars, livevars, authvars>>

\* pages/manage_students.py, Delete Student: DELETE FROM students WHERE
\* student_id = ?; what was written for the id is forgotten
DeleteStudent(i) ==
    /\ i \in 1..Len(students)
    /\ students' = SelectSeq2(students, students[i].student_id)
    /\ written' = [written EXCEPT ![students[i].student_id] = NoObject]
    /\ UNCHANGED <<attendance_logs, utc, tz, session_loaded, user, pc, ss, cap,
                   run, cycles, outcomes, leaked>>
    /\ UNCHANGED <<matchvars, embedvars, detectvars, livevars, authvars>>

NextStore ==
    \/ \E id \in StoreIds, name \in StudentNames \cup {None},
          embedding \in StoreEmbeddings, ok \in BOOLEAN :
          InsertStudent(id, name, embedding, ok)
    \/ \E i \in 1..Cardinality(StoreIds), name \in StudentNames : UpdateName(i, name)
    \/ \E i \in 1..Cardinality(StoreIds) : DeleteStudent(i)

SpecStore == InitStore /\ [][NextStore]_vars

\* ------------------------------------- LivenessDetector on its own inputs
\* a frame without landmarks, and frames with landmarks: at rest, with one
\* coordinate or both displaced, with the eyes open, nearly open or closed
LiveFrames ==
    {[landmarks |-> FALSE, points |-> <<0, 0>>, ear |-> 0]}
    \cup [landmarks : {TRUE}, points : {<<0, 0>>, <<6, 0>>, <<6, 6>>},
          ear : {15, 24, 25}]

FrameWindows == UNION {[1..n -> LiveFrames] : n \in 0..MaxFrames}

InitLiveness ==
    /\ InitSysIdle
    /\ InitMatchIdle
    /\ InitEmbedIdle
    /\ InitDetectIdle
    /\ InitStoreEmpty
    /\ l_frames \in FrameWindows
    /\ l_out = NotCalledLiveness
    /\ InitAuthLoggedIn

\* LivenessDetector.check_liveness
CheckLivenessCall ==
    /\ ~l_out.called
    /\ LET r == check_liveness(l_frames) IN
       l_out' = [called |-> TRUE, is_live |-> r.is_live, reason |-> r.reason]
    /\ UNCHANGED l_frames
    /\ UNCHANGED <<sysvars, matchvars, embedvars, detectvars, storevars, authvars>>

NextLiveness == CheckLivenessCall

SpecLiveness == InitLiveness /\ [][NextLiveness]_vars

\* ==================================================================== claims
IsSuccessRow(row, id) == row.status = "SUCCESS" /\ row.student_id = id

C2_AtMostOneSuccessPerDay ==
    \A i, j \in 1..Len(attendance_logs) :
        (/\ i < j
         /\ attendance_logs[i].status = "SUCCESS"
         /\ attendance_logs[j].status = "SUCCESS"
         /\ attendance_logs[i].student_id = attendance_logs[j].student_id)
        => Date(attendance_logs[i].timestamp) # Date(attendance_logs[j].timestamp)

\* C3: at any time, check_attendance_today(X) is true if and only if the log
\* holds a SUCCESS row of X whose timestamp, as log_attendance wrote it, falls
\* on the calendar day of that time.
C3_CheckIsTodaysSuccess ==
    \A id \in StudentIds :
        check_attendance_today(attendance_logs, id, utc)
        <=> \E i \in 1..Len(attendance_logs) :
               /\ IsSuccessRow(attendance_logs[i], id)
               /\ Date(attendance_logs[i].timestamp) = Date(LocalNow(utc, tz))

\* C4: a run of the Mark Attendance page whose pre-check found the student
\* already marked today does not run the pipeline: it opens no capture
\* device, reads no frame, runs no stage and appends no row.
C4_MarkedRunDoesNothing ==
    \A s \in Sessions :
        run[s].has_marked =>
            /\ ~run[s].cam_opened
            /\ ~run[s].frame_read
            /\ run[s].trace = <<>>
            /\ run[s].row = 0
            /\ pc[s] # "loop"

\* C4 witness: a page run that found the student marked has ended.
C4_Witness ==
    \E s \in Sessions :
        /\ run[s].has_marked
        /\ pc[s] = "idle"
        /\ \E i \in 1..Len(attendance_logs) :
               IsSuccessRow(attendance_logs[i], user[s])

\* C5: nothing between the pre-check and the append looks at the log again:
\* a session that passed the pre-check and then matches its own subject
\* appends a SUCCESS row for it although check_attendance_today has become
\* true in the meantime (another session appended first).
C5_StaleCheckStillAppends ==
    [][\A s \in Sessions :
          (/\ pc[s] = "loop"
           /\ ss[s].result_data = NoObject
           /\ ss'[s].result_data # NoObject
           /\ ss'[s].result_data.student_id = user[s]
           /\ check_attendance_today(attendance_logs, user[s], utc))
          => /\ Len(attendance_logs') = Len(attendance_logs) + 1
             /\ IsSuccessRow(attendance_logs'[Len(attendance_logs')], user[s])]_vars

\* C5 witness: two sessions of the same subject both observed "not marked"
\* before either appended, and both appended a SUCCESS row for the subject on
\* the same day.
C5_Witness ==
    \E s1, s2 \in Sessions :
        /\ s1 # s2
        /\ user[s1] = user[s2]
        /\ ~run[s1].has_marked /\ ~run[s2].has_marked
        /\ run[s1].row > 0 /\ run[s2].row > 0
        /\ run[s1].row > run[s2].seen /\ run[s2].row > run[s1].seen
        /\ run[s1].row <= Len(attendance_logs)
        /\ run[s2].row <= Len(attendance_logs)
        /\ IsSuccessRow(attendance_logs[run[s1].row], user[s1])
        /\ IsSuccessRow(attendance_logs[run[s2].row], user[s2])
        /\ Date(attendance_logs[run[s1].row].timestamp)
              = Date(attendance_logs[run[s2].row].timestamp)

\* the similarities of the query of the matcher specification
Similarities ==
    [i \in 1..Len(m_db) |-> cosine_similarity(m_query, m_db[i].embedding)]

IsMaximum(x) ==
    /\ \E i \in 1..Len(m_db) : Similarities[i] = x
    /\ \A i \in 1..Len(m_db) : Similarities[i] <= x

\* C6: on a non-empty candidate list, a query equal to the signature of a
\* candidate returns an identity whose signature equals the query, with
\* similarity 1.0, provided the threshold is at most 1.0.
C6_ExactQueryMatches ==
    (/\ m_out.called
     /\ Len(m_db) > 0
     /\ threshold <= 100
     /\ \E i \in 1..Len(m_db) : m_db[i].embedding = m_query)
    => /\ m_out.similarity_score = ScoreUnit
       /\ \E i \in 1..Len(m_db) :
             /\ m_db[i].student_id = m_out.student_id
             /\ m_db[i].embedding = m_query

\* C7: on a non-empty candidate list the returned score is the maximum cosine
\* similarity between the query and the candidates, also when no identity is
\* returned.
C7_ScoreIsMaximum ==
    (m_out.called /\ Len(m_db) > 0) => IsMaximum(m_out.similarity_score)

\* C7 witness: no identity was returned and the score is the non-zero maximum.
C7_Witness ==
    /\ m_out.called
    /\ Len(m_db) > 1
    /\ m_out.student_id = None
    /\ m_out.similarity_score # 0
    /\ \E i \in 1..Len(m_db) : Similarities[i] < m_out.similarity_score

\* C8: on a non-empty candidate list an identity (id and name) is returned if
\* and only if the best score is at least the current threshold, the boundary
\* included.
C8_IdentityIffAtThreshold ==
    (m_out.called /\ Len(m_db) > 0) =>
        /\ (m_out.student_id # None) <=> (m_out.student_name # None)
        /\ (m_out.student_id # None)
              <=> MaxOf({Similarities[i] : i \in 1..Len(m_db)}) * 100
                     >= threshold * ScoreUnit

\* C8 witness: the best score equals the threshold 0.80 and an identity is returned.
C8_Witness ==
    /\ m_out.called
    /\ threshold = COSINE_SIMILARITY_THRESHOLD
    /\ m_out.similarity_score * 100 = threshold * ScoreUnit
    /\ m_out.student_id # None

\* C9: when several candidates share the maximum similarity, the returned id
\* and name are those of the first of them in the order of the list.
C9_FirstOfTheTies ==
    (m_out.called /\ m_out.student_id # None) =>
        \E i \in 1..Len(m_db) :
            /\ m_db[i].student_id = m_out.student_id
            /\ m_db[i].student_name = m_out.student_name
            /\ IsMaximum(Similarities[i])
            /\ \A j \in 1..(i - 1) : Similarities[j] < Similarities[i]

\* C9 witness: two candidates with different signatures and names tie for the
\* maximum and an identity is returned.
C9_Witness ==
    /\ m_out.called
    /\ m_out.student_id # None
    /\ \E i, j \in 1..Len(m_db) :
          /\ i < j
          /\ IsMaximum(Similarities[i])
          /\ Similarities[j] = Similarities[i]
          /\ m_db[i].embedding # m_db[j].embedding
          /\ m_db[i].student_name # m_db[j].student_name

\* C10: generate_embedding returns either the failure value or a vector of
\* EMBEDDING_DIM components with L2 norm 1; a raw output whose padded or
\* truncated form has zero norm gives the failure value.
C10_UnitVectorOrFailure ==
    e_out.called =>
        \/ e_out.value = NoEmbedding
        \/ /\ Len(e_out.value) = EMBEDDING_DIM
           /\ SqNorm(e_out.value) = ScoreUnit

\* C11: generate_embedding never raises to its caller: for a missing, an
\* empty or a zero-area crop, for a model that is not loaded, and for any
\* exception during preprocessing or inference it returns the failure value.
C11_NeverRaises ==
    e_out.called =>
        /\ ~e_out.raised
        /\ (\/ ~e_loaded
            \/ e_crop = NoObject
            \/ e_crop.size = 0
            \/ e_crop.fault # "none") => e_out.value = NoEmbedding

\* C11 witness: the model is loaded, the crop has pixels, inference raised,
\* and the call returned the failure value.
C11_Witness ==
    /\ e_out.called
    /\ e_loaded
    /\ e_crop # NoObject
    /\ e_crop.size = 1
    /\ e_crop.fault = "inference"
    /\ ~e_out.raised
    /\ e_out.value = NoEmbedding

\* C12: detect_single_face returns a result if and only if the number of
\* faces detected in the frame is exactly 1 (None for 0 faces and for 2 or
\* more), and this agrees with detect_faces_count on the same detections.
C12_ResultIffOneFace ==
    /\ d_single.called =>
          ((d_single.value # NoObject) <=> (d_image.faces = 1))
    /\ (d_single.called /\ d_count.called) =>
          ((d_single.value # NoObject) <=> (d_count.value = 1))

\* C12 witness: both functions ran on a frame with two or more faces; the
\* count says so and detect_single_face returned None.
C12_Witness ==
    /\ d_single.called
    /\ d_count.called
    /\ d_count.value >= 2
    /\ d_single.value = NoObject

\* the entries get_all_embeddings returns for an id
EntriesOf(id) ==
    {i \in 1..Len(get_all_embeddings(students)) :
        get_all_embeddings(students)[i].student_id = id}

\* C13: after any sequence of insert_student calls, get_all_embeddings
\* returns for every student_id at most one entry, and that entry carries the
\* name and the signature of the last successful insert_student for that id:
\* an insert for an existing id replaces, and a read returns what was written.
C13_OneEntryPerId ==
    \A id \in StoreIds :
        /\ Cardinality(EntriesOf(id)) <= 1
        /\ written[id] = NoObject => EntriesOf(id) = {}
        /\ written[id] # NoObject =>
              \E i \in EntriesOf(id) :
                 /\ get_all_embeddings(students)[i].student_name
                       = written[id].student_name
                 /\ get_all_embeddings(students)[i].embedding
                       = written[id].embedding

\* C13 witness: an id that was not the last row of the table has been
\* inserted again with another name and signature; the table still holds two
\* rows and the id's entry, now the last row, is the new one.
C13_Witness ==
    /\ Len(students) = 2
    /\ students[1].student_id = "STU2"
    /\ students[2].student_id = "STU1"
    /\ written["STU1"] # NoObject
    /\ written["STU1"].student_name = "Bob"
    /\ written["STU1"].embedding = ZeroVector
    /\ get_all_embeddings(students)[2].student_name = "Bob"
    /\ get_all_embeddings(students)[2].embedding = ZeroVector

\* C14: every appended attempt carries an outcome that identifies its cause
\* (0 faces, 2 or more faces, embedding failure, best score below threshold,
\* match), so that these cases can be told apart from the log row alone: two
\* rows with the same status, student_id and similarity_score come from
\* attempts that ran into the same thing.
C14_OutcomeReadableFromRow ==
    \A i, j \in 1..Len(attendance_logs) :
        (/\ attendance_logs[i].status = attendance_logs[j].status
         /\ attendance_logs[i].student_id = attendance_logs[j].student_id
         /\ attendance_logs[i].similarity_score = attendance_logs[j].similarity_score)
        => outcomes[i] = outcomes[j]

\* a call of process_attendance by the session returns in this step
Completes(s) == run'[s].row # 0 /\ run'[s].row # run[s].row

\* C15: every completed pipeline run, whatever its outcome, leaves the
\* session displaying the result: after process_attendance returns,
\* result_data is set and the dwell starts.
C15_EveryOutcomeIsDisplayed ==
    [][\A s \in Sessions :
          Completes(s) => /\ ss'[s].result_data # NoObject
                          /\ ss'[s].last_result_time = utc]_vars

\* C16: a session that displays a result returns to IDLE (result_data
\* cleared, processing and blink_detected false) once the dwell has elapsed,
\* without any further user action.
C16_DwellReturnsToIdle ==
    \A s \in Sessions :
        (/\ ss[s].result_data # NoObject
         /\ ss[s].last_result_time + RESULT_DWELL < MaxTime)
        ~> (/\ ss[s].result_data = NoObject
            /\ ~ss[s].processing
            /\ ~ss[s].blink_detected)

\* the capture of the session triggers in this step
AttemptStarts(s) == run[s].frame = NoObject /\ run'[s].frame # NoObject

\* C17: within one session the scanning loop runs only while nothing is being
\* processed or displayed, and an attempt starts only from IDLE (processing
\* false, result_data None, blink_detected false) and more than the result
\* dwell after the start of the previous attempt and after its result was
\* displayed.
C17_SingleSlot ==
    [][\A s \in Sessions :
          /\ (pc'[s] = "loop") =>
                (~ss'[s].processing /\ ss'[s].result_data = NoObject)
          /\ AttemptStarts(s) =>
                /\ pc[s] = "loop"
                /\ ~ss[s].processing
                /\ ss[s].result_data = NoObject
                /\ ~ss[s].blink_detected
                /\ (ss[s].last_blink_time > 0) =>
                      (utc - ss[s].last_blink_time > RESULT_DWELL)
                /\ (ss[s].last_result_time > 0) =>
                      (utc - ss[s].last_result_time > RESULT_DWELL)]_vars

\* C17 witness: the session displayed the result of its first attempt and
\* has made a second attempt.
C17_Witness ==
    \E s \in Sessions :
        /\ cycles = 2
        /\ Len(outcomes) = 2
        /\ outcomes[1] \in {"MATCHED", "NO_MATCH"}
        /\ run[s].row = 2

\* C18: a capture triggers only on a frame in which landmarks were found and
\* whose average EAR is below 0.20, and only more than 2 seconds after the
\* previous trigger; last_blink_time is the time of the last trigger and
\* changes at no other step.
C18_TriggerConditions ==
    [][\A s \in Sessions :
          /\ AttemptStarts(s) =>
                /\ run'[s].frame.landmarks
                /\ run'[s].frame.ear < BLINK_THRESHOLD
                /\ utc - ss[s].last_blink_time > BLINK_COOLDOWN
                /\ ss'[s].last_blink_time = utc
          /\ (ss'[s].last_blink_time # ss[s].last_blink_time) =>
                AttemptStarts(s)]_vars

\* C18 witness: the first attempt of the session found no face, and the
\* session has triggered again, more than 2 seconds after the first trigger.
C18_Witness ==
    \E s \in Sessions :
        /\ Len(outcomes) = 2
        /\ outcomes[1] = "NO_FACE"
        /\ run[s].row = 2
        /\ run[s].frame # NoObject
        /\ ss[s].last_blink_time - attendance_logs[1].timestamp > BLINK_COOLDOWN

\* C19: whenever the scanning loop has been left, the capture device opened
\* for it has been released.
C19_ReleasedOutsideLoop ==
    \A s \in Sessions : (pc[s] # "loop") => (~cap[s] /\ ~leaked[s])

\* the stages of an attempt in the order of the statements of
\* process_attendance
StageOrder == <<"detect", "embed", "store", "match", "log">>

StageRank(stage) == CHOOSE k \in 1..Len(StageOrder) : StageOrder[k] = stage

Ran(trace, stage) == \E k \in 1..Len(trace) : trace[k] = stage

\* C20: within one attempt the stages run strictly in order: embedding only
\* if detection returned exactly one face, the store read and the match only
\* if embedding succeeded, the log append last; no later stage runs after a
\* failed earlier one.
C20_StagesInOrder ==
    \A s \in Sessions :
        run[s].trace # <<>> =>
            /\ run[s].frame # NoObject
            /\ run[s].trace[1] = "detect"
            /\ \A i, j \in 1..Len(run[s].trace) :
                  (i < j) => (StageRank(run[s].trace[i]) < StageRank(run[s].trace[j]))
            /\ Ran(run[s].trace, "embed") =>
                  (detect_faces_count(run[s].frame) = 1)
            /\ Ran(run[s].trace, "store") =>
                  /\ Ran(run[s].trace, "embed")
                  /\ generate_embedding(session_loaded, run[s].frame.crop)
                        # NoEmbedding
            /\ Ran(run[s].trace, "match") => Ran(run[s].trace, "store")
            /\ Ran(run[s].trace, "log") =>
                  (run[s].trace[Len(run[s].trace)] = "log")

\* C20 witness: one face was detected, the embedding failed, and the attempt
\* went straight to the log append.
C20_Witness ==
    \E s \in Sessions :
        /\ run[s].frame # NoObject
        /\ detect_faces_count(run[s].frame) = 1
        /\ run[s].trace = <<"detect", "embed", "log">>
        /\ run[s].row = Len(attendance_logs)

\* C21: after every trigger, whatever goes wrong in face processing, the
\* session returns to IDLE (processing and blink_detected false, result_data
\* None), so that a later blink can start a new attempt; it never stays with
\* processing set and no result to clear.
C21_EveryTriggerReturnsToIdle ==
    \A s \in Sessions :
        (/\ ss[s].processing
         /\ ss[s].last_blink_time + RESULT_DWELL < MaxTime)
        ~> (/\ ~ss[s].processing
            /\ ss[s].result_data = NoObject
            /\ ~ss[s].blink_detected)

\* the run of the session reaches the camera block and the device does not
\* open: the run ends without entering the loop
OpenFails(s) ==
    /\ pc[s] = "start"
    /\ mark_attendance_gate(check_attendance_today(attendance_logs, user[s], utc))
    /\ get_student_count(students) # 0
    /\ camera_runs(ss[s].processing, ss[s].result_data)
    /\ pc'[s] = "idle"

\* the loop of the session ends on a frame that could not be read
ReadFails(s) ==
    /\ pc[s] = "loop"
    /\ pc'[s] = "idle"
    /\ run'[s].frame = NoObject

\* C22: when the capture device cannot be opened or a frame read fails, the
\* error is displayed in that run, the pipeline is not run, no row is
\* appended, and the session state stays IDLE: processing, blink_detected and
\* result_data are unchanged.
C22_DeviceFailureIsShownAndHarmless ==
    [][\A s \in Sessions :
          (OpenFails(s) \/ ReadFails(s)) =>
              /\ OpenFails(s) => run'[s].shown = CameraOpenError
              /\ ReadFails(s) => run'[s].shown = CameraReadError
              /\ run'[s].trace = <<>>
              /\ run'[s].row = 0
              /\ attendance_logs' = attendance_logs
              /\ cycles' = cycles
              /\ ss'[s] = ss[s]
              /\ ~ss'[s].processing
              /\ ~ss'[s].blink_detected
              /\ ss'[s].result_data = NoObject
              /\ ~cap'[s]]_vars

\* C22 witness: after an attempt of the session was logged, a later run
\* opened the camera, read frames and then failed to read one.
C22_Witness ==
    \E s \in Sessions :
        /\ run[s].shown = CameraReadError
        /\ run[s].cam_opened
        /\ run[s].frame_read
        /\ pc[s] = "idle"
        /\ Len(attendance_logs) = 1

\* the bounding box of the detection expanded by the padding on its four
\* sides and intersected with the frame: left, top, right and bottom edge
ExpandedAndClipped(image) ==
    [left |-> Max2(0, image.box.x - FACE_CROP_PADDING),
     top |-> Max2(0, image.box.y - FACE_CROP_PADDING),
     right |-> Min2(image.shape.w, image.box.x + image.box.w + FACE_CROP_PADDING),
     bottom |-> Min2(image.shape.h, image.box.y + image.box.h + FACE_CROP_PADDING)]

\* C23: the crop region returned by detect_single_face is the detected
\* bounding box expanded by FACE_CROP_PADDING pixels on each of its four
\* sides and intersected with the frame, for every frame size and box
\* position: it lies within the frame and extends min(padding, distance to
\* the frame edge) beyond the box on every side.
C23_CropIsPaddedBoxClipped ==
    (d_single.called /\ d_single.value # NoObject) =>
        LET bbox == d_single.value.bbox
            region == ExpandedAndClipped(d_image)
        IN  /\ bbox.x = region.left
            /\ bbox.y = region.top
            /\ bbox.x + bbox.w = region.right
            /\ bbox.y + bbox.h = region.bottom

VarianceTimesN2(xs) ==
    LET n == Len(xs)
        total == SumTo(xs, n)
        squares == SumTo([i \in 1..n |-> xs[i] * xs[i]], n)
    IN  n * squares - total * total

\* the mean over the landmark coordinates of their variances across the
\* window exceeds the movement threshold
MovementSeen(frames) ==
    LET n == Len(frames)
        per_coord == [k \in 1..LANDMARK_COORDS |->
                         VarianceTimesN2([i \in 1..n |-> frames[i].points[k]])]
    IN  SumTo(per_coord, LANDMARK_COORDS)
           > LIVENESS_MOVEMENT_THRESHOLD * n * n * LANDMARK_COORDS

\* the variance of the EAR across the window exceeds the blink threshold
BlinkSeen(frames) ==
    LET n == Len(frames) IN
    VarianceTimesN2([i \in 1..n |-> frames[i].ear]) > EYE_ASPECT_RATIO_THRESHOLD * n * n

\* C25: check_liveness accepts if and only if at least LIVENESS_FRAMES_COUNT
\* frames are given, landmarks are found in every frame, and the mean
\* landmark-position variance exceeds the movement threshold or the variance
\* of the EAR exceeds the blink threshold; a window of identical frames is
\* rejected.
C25_LivenessAcceptance ==
    l_out.called =>
        /\ l_out.is_live <=>
              /\ Len(l_frames) >= LIVENESS_FRAMES_COUNT
              /\ \A i \in 1..Len(l_frames) : l_frames[i].landmarks
              /\ MovementSeen(l_frames) \/ BlinkSeen(l_frames)
        /\ (\A i, j \in 1..Len(l_frames) : l_frames[i] = l_frames[j])
              => ~l_out.is_live

\* C25 witness: a window of three frames whose landmarks stay in place and
\* whose EAR drops in one frame was accepted on the blink alone.
C25_Witness ==
    /\ l_out.called
    /\ l_out.is_live
    /\ Len(l_frames) = LIVENESS_FRAMES_COUNT
    /\ \A i, j \in 1..Len(l_frames) : l_frames[i].points = l_frames[j].points
    /\ l_out.reason = "Eye blink detected"

\* the messages process_attendance returns as its error
PipelineErrors == {"No face detected", "Embedding generation failed"}

ScoresAgainst(frame, table) ==
    LET q == generate_embedding(session_loaded, detect_single_face(frame).face_crop)
        db == get_all_embeddings(table)
    IN  {cosine_similarity(q, db[i].embedding) : i \in 1..Len(db)}

\* C27: every row appended by a pipeline run has a subject id if and only if
\* its status is SUCCESS; the subject of a SUCCESS row was in the store read
\* for the attempt and its score is at least the threshold in force; a
\* FAILURE row of a no-face or embedding failure has score 0, and a FAILURE
\* row of a no-match has the best score, which is below the threshold.
C27_RowInvariants ==
    [][\A s \in Sessions :
          Completes(s) =>
              LET row == attendance_logs'[run'[s].row]
                  outcome == outcomes'[run'[s].row]
                  frame == run'[s].frame
              IN  /\ (row.student_id # None) <=> (row.status = "SUCCESS")
                  /\ row.status \in {"SUCCESS", "FAILURE"}
                  /\ row.status = "SUCCESS" =>
                        /\ \E i \in 1..Len(students) :
                              students[i].student_id = row.student_id
                        /\ AtLeast(row.similarity_score, threshold)
                  /\ outcome \in {"NO_FACE", "MULTI_FACE", "EMBEDDING_FAILED"} =>
                        /\ row.status = "FAILURE"
                        /\ row.similarity_score = 0
                  /\ outcome = "NO_MATCH" =>
                        /\ row.status = "FAILURE"
                        /\ ~AtLeast(row.similarity_score, threshold)
                        /\ students # <<>> =>
                              /\ row.similarity_score \in ScoresAgainst(frame, students)
                              /\ \A x \in ScoresAgainst(frame, students) :
                                    x <= row.similarity_score]_vars

\* C27 witness: a frame whose best score against the store is above 0 and
\* below the threshold was logged as a FAILURE with that score and no
\* subject.
C27_Witness ==
    \E s \in Sessions :
        /\ run[s].row # 0
        /\ outcomes[run[s].row] = "NO_MATCH"
        /\ attendance_logs[run[s].row].status = "FAILURE"
        /\ attendance_logs[run[s].row].student_id = None
        /\ attendance_logs[run[s].row].similarity_score > 0

\* C28: the row a pipeline run appends is determined by the captured frame,
\* the store and the threshold, not by the authenticated user: two sessions
\* logged in as different students that process the same frame against the
\* same store append rows with the same subject id, status and score.
C28_RowIndependentOfUser ==
    \A s1, s2 \in Sessions :
        (/\ run[s1].row # 0
         /\ run[s2].row # 0
         /\ user[s1] # user[s2]
         /\ run[s1].frame = run[s2].frame)
        => LET row1 == attendance_logs[run[s1].row]
               row2 == attendance_logs[run[s2].row]
           IN  /\ row1.student_id = row2.student_id
               /\ row1.status = row2.status
               /\ row1.similarity_score = row2.similarity_score

\* C28 witness: the sessions of two students have each processed the same
\* frame; both rows are a SUCCESS of the same subject, who is not the user
\* of the second session.
C28_Witness ==
    \E s1, s2 \in Sessions :
        /\ user[s1] # user[s2]
        /\ run[s1].row # 0
        /\ run[s2].row # 0
        /\ run[s1].row # run[s2].row
        /\ run[s1].frame = run[s2].frame
        /\ attendance_logs[run[s1].row].status = "SUCCESS"
        /\ attendance_logs[run[s2].row].student_id = user[s1]
        /\ attendance_logs[run[s2].row].student_id # user[s2]

\* C29: get_today_attendance_count equals the number of distinct non-null
\* identities X for which check_attendance_today(X) is true: several SUCCESS
\* rows of one identity on the same day count once, FAILURE rows never count.
C29_CountIsNumberOfCheckedIds ==
    get_today_attendance_count(attendance_logs, utc)
        = Cardinality({X \in StoreIds :
                          check_attendance_today(attendance_logs, X, utc)})

\* C29 witness: the log holds two SUCCESS rows of one identity that both
\* count as today's, and the count is 1.
C29_Witness ==
    /\ Len(attendance_logs) = 2
    /\ attendance_logs[1].status = "SUCCESS"
    /\ attendance_logs[2].status = "SUCCESS"
    /\ attendance_logs[1].student_id = attendance_logs[2].student_id
    /\ Date(attendance_logs[1].timestamp) = Date(utc)
    /\ Date(attendance_logs[2].timestamp) = Date(utc)
    /\ get_today_attendance_count(attendance_logs, utc) = 1

\* C30: the attendance pipeline runs only in a session authenticated with
\* role 'student': the scanning loop and an attempt happen only there, so an
\* unauthenticated session and an admin session never reach
\* process_attendance; a session becomes authenticated only by a login whose
\* password verifies against an active account; after logout the session is
\* unauthenticated and its attendance session state is cleared.
C30_OnlyStudentsRunThePipeline ==
    [][\A s \in Sessions :
          /\ (pc'[s] = "loop" \/ AttemptStarts(s) \/ Completes(s)) =>
                /\ auth[s].authenticated
                /\ auth[s].account.role = "student"
                /\ auth'[s] = auth[s]
          /\ (auth'[s].authenticated /\ ~auth[s].authenticated) =>
                LET row == get_user_by_username(users, auth'[s].account.username) IN
                /\ row # NoObject
                /\ verify_password(auth'[s].entered, row.password)
                /\ row.is_active
                /\ auth'[s].account = row
          /\ (auth[s].authenticated /\ ~auth'[s].authenticated) =>
                /\ auth'[s] = LoggedOut
                /\ ss'[s] = InitSessionState
                /\ pc'[s] # "loop"]_vars

\* C30 witness: a student logged in and marked attendance, the session
\* logged out and an account was disabled: the session is unauthenticated,
\* its attendance state is cleared, and the row is in the log.
C30_Witness ==
    \E s \in Sessions :
        /\ auth[s] = LoggedOut
        /\ ss[s] = InitSessionState
        /\ Len(attendance_logs) = 1
        /\ attendance_logs[1].status = "SUCCESS"
        /\ \E i \in 1..Len(users) : ~users[i].is_active

====
